---- MODULE Spec2Model ----
(***************************************************************************)
(* scripts/codex_compatibility_sync.py: the compatibility table merger.    *)
(* Text (file contents, table cells, versions, statuses, JSON strings) is  *)
(* a sequence of one-character strings, so that strip, lower, split and    *)
(* the version pattern are computed character by character.               *)
(***************************************************************************)
EXTENDS Integers, Sequences, FiniteSets, TLC

\* ------------------------------------------------------------------ text

\* The characters str.strip() removes (those of the modelled alphabet).
Whitespace == {" ", "\t", "\n"}

DIGITS == <<"0","1","2","3","4","5","6","7","8","9">>

UPPERCASE == <<"A","B","C","D","E","F","G","H","I","J","K","L","M","N","O","P","Q","R","S","T","U","V","W","X","Y","Z">>

LOWERCASE == <<"a","b","c","d","e","f","g","h","i","j","k","l","m","n","o","p","q","r","s","t","u","v","w","x","y","z">>

SetMax(S) == CHOOSE x \in S : \A y \in S : y <= x

\* str.strip(chars): drop the leading and trailing characters that are in chars.
StripChars(s, chars) ==
    IF \A i \in 1..Len(s) : s[i] \in chars THEN <<>>
    ELSE LET first == CHOOSE i \in 1..Len(s) :
                          s[i] \notin chars /\ \A j \in 1..(i - 1) : s[j] \in chars
             last == CHOOSE i \in 1..Len(s) :
                          s[i] \notin chars /\ \A j \in (i + 1)..Len(s) : s[j] \in chars
         IN  SubSeq(s, first, last)

\* str.strip()
Strip(s) == StripChars(s, Whitespace)

\* str.lstrip(chars)
LStripChars(s, chars) ==
    IF \A i \in 1..Len(s) : s[i] \in chars THEN <<>>
    ELSE LET first == CHOOSE i \in 1..Len(s) :
                          s[i] \notin chars /\ \A j \in 1..(i - 1) : s[j] \in chars
         IN  SubSeq(s, first, Len(s))

LowerChar(c) ==
    IF \E i \in 1..Len(UPPERCASE) : UPPERCASE[i] = c
    THEN LOWERCASE[CHOOSE i \in 1..Len(UPPERCASE) : UPPERCASE[i] = c]
    ELSE c

\* str.lower()
Lower(s) == [i \in 1..Len(s) |-> LowerChar(s[i])]

\* str.split(d): the pieces between the occurrences of d, empty pieces kept.
Split(s, d) ==
    LET pos == {i \in 1..Len(s) : s[i] = d}
        n == Cardinality(pos)
        at(k) == CHOOSE i \in pos : Cardinality({j \in pos : j <= i}) = k
        from(k) == IF k = 1 THEN 1 ELSE at(k - 1) + 1
        to(k) == IF k = n + 1 THEN Len(s) ELSE at(k) - 1
    IN  [k \in 1..(n + 1) |-> SubSeq(s, from(k), to(k))]

\* str.splitlines(), for the line break "\n": no empty last line after a
\* final line break, and no line at all for the empty text.
SplitLines(text) ==
    LET pieces == Split(text, "\n")
    IN  IF pieces[Len(pieces)] = <<>> THEN SubSeq(pieces, 1, Len(pieces) - 1) ELSE pieces

StartsWith(s, c) == Len(s) > 0 /\ s[1] = c

IsDigit(c) == \E i \in 1..Len(DIGITS) : DIGITS[i] = c

DigitValue(c) == (CHOOSE i \in 1..Len(DIGITS) : DIGITS[i] = c) - 1

RECURSIVE ParseInt(_)
\* int(part) for a part made of decimal digits
ParseInt(s) ==
    IF s = <<>> THEN 0
    ELSE 10 * ParseInt(SubSeq(s, 1, Len(s) - 1)) + DigitValue(s[Len(s)])

\* re.fullmatch(r"-+", part or "")
DashesFullmatch(part) == Len(part) > 0 /\ \A i \in 1..Len(part) : part[i] = "-"

RECURSIVE VersionMatchFrom(_, _, _)
\* The matcher of r"\d+(?:\.\d+)+" from position i; q is the place in the
\* pattern: 0 before the first digit, 1 in the first group of digits, 2 just
\* after a dot, 3 in a later group of digits (the only accepting place).
VersionMatchFrom(s, i, q) ==
    IF i > Len(s) THEN q = 3
    ELSE IF IsDigit(s[i]) THEN VersionMatchFrom(s, i + 1, IF q \in {0, 1} THEN 1 ELSE 3)
    ELSE IF s[i] = "." /\ q \in {1, 3} THEN VersionMatchFrom(s, i + 1, 2)
    ELSE FALSE

\* The mutant of VersionFullmatch that takes a single group of digits too:
\* r"\d+(?:\.\d+)*".
VersionFullmatchOneGroup(s) ==
    /\ s # <<>>
    /\ \A i \in 1..Len(s) : IsDigit(s[i]) \/ s[i] = "."
    /\ IsDigit(s[1]) /\ IsDigit(s[Len(s)])
    /\ \A i \in 1..(Len(s) - 1) : ~(s[i] = "." /\ s[i + 1] = ".")

\* re.fullmatch(r"\d+(?:\.\d+)+", version)
VersionFullmatch(s) == VersionMatchFrom(s, 1, 0)

\* ------------------------------------------------------ program constants

linux == <<"l","i","n","u","x">>

mac == <<"m","a","c">>

windows == <<"w","i","n","d","o","w","s">>

rockylinux8 == <<"r","o","c","k","y","l","i","n","u","x","8">>

ubuntu2004 == <<"u","b","u","n","t","u","2","0",".","0","4">>

PLATFORMS == <<linux, mac, windows, rockylinux8, ubuntu2004>>

PlatformSet == {PLATFORMS[i] : i \in 1..Len(PLATFORMS)}

HEADER == <<
    <<"|"," ","C","o","d","e","x"," ","v","e","r","s","i","o","n"," ","|"," ","l","i","n","u","x"," ","|"," ","m","a","c"," ","|"," ","w","i","n","d","o","w","s"," ","|"," ","r","o","c","k","y","l","i","n","u","x","8"," ","|"," ","u","b","u","n","t","u","2","0",".","0","4"," ","|"," ","l","a","s","t","_","t","e","s","t","e","d","_","u","t","c"," ","|">>,
    <<"|"," ","-","-","-"," ","|"," ","-","-","-"," ","|"," ","-","-","-"," ","|"," ","-","-","-"," ","|"," ","-","-","-"," ","|"," ","-","-","-"," ","|"," ","-","-","-"," ","|">> >>

CodexVersion == <<"C","o","d","e","x"," ","v","e","r","s","i","o","n">>

LastTestedUtc == <<"l","a","s","t","_","t","e","s","t","e","d","_","u","t","c">>

NotRun == <<"n","o","t","-","r","u","n">>

Pass == <<"p","a","s","s">>

Fail == <<"f","a","i","l">>

\* The statuses load_results keeps as they are.
KnownStatuses == {Pass, Fail, NotRun}

Title == <<"#"," ","C","o","d","e","x"," ","C","o","m","p","a","t","i","b","i","l","i","t","y">>

\* The notice of line 89, its two backquotes written as quotes (a TLA+ string
\* cannot hold a backquote).
Notice == <<"A","u","t","o","-","u","p","d","a","t","e","d"," ","b","y"," ","'",".","g","i","t","h","u","b","/","w","o","r","k","f","l","o","w","s","/","c","o","d","e","x","-","r","e","l","e","a","s","e","-","m","o","n","i","t","o","r",".","y","m","l","'",".">>

\* ------------------------------------------------------------- functions

normalize_version(v) == LStripChars(Strip(v), {"v"})

\* dict.get(key, default) on a dict modelled as a function
DictGet(d, key, default) == IF key \in DOMAIN d THEN d[key] ELSE default

\* rows[version] = parsed on the ordered dict rows, a sequence of
\* [version, row]: an existing key keeps its place, a new key goes last.
RowsSet(rows, version, row) ==
    IF \E i \in 1..Len(rows) : rows[i].version = version
    THEN [i \in 1..Len(rows) |->
            IF rows[i].version = version THEN [version |-> version, row |-> row] ELSE rows[i]]
    ELSE Append(rows, [version |-> version, row |-> row])

\* rows.get(version, {})
RowsGet(rows, version) ==
    IF \E i \in 1..Len(rows) : rows[i].version = version
    THEN rows[CHOOSE i \in 1..Len(rows) : rows[i].version = version].row
    ELSE <<>>

\* {columns[i]: parts[i] for i in range(min(len(columns), len(parts)))}: of
\* two columns with one name the later one stays.
ZipRow(columns, parts) ==
    LET n == IF Len(columns) < Len(parts) THEN Len(columns) ELSE Len(parts)
    IN  [name \in {columns[i] : i \in 1..n} |->
            parts[SetMax({i \in 1..n : columns[i] = name})]]

\* Lines 34-48 of parse_table for one line that starts with "|": the columns
\* and rows after it.
ParseLine(line, columns, rows) ==
    LET raw == Split(StripChars(Strip(line), {"|"}), "|")
        parts == [i \in 1..Len(raw) |-> Strip(raw[i])]
        row == ZipRow(columns, parts)
        version == normalize_version(DictGet(row, CodexVersion, <<>>))
        cell(platform) ==
            LET c == Lower(Strip(DictGet(row, platform, <<>>)))
            IN  IF c = <<>> THEN NotRun ELSE c
        parsed == [k \in PlatformSet \cup {LastTestedUtc} |->
                      IF k = LastTestedUtc
                      THEN Strip(DictGet(row, LastTestedUtc, <<>>))
                      ELSE cell(k)]
    IN  IF Len(parts) < 2 THEN [columns |-> columns, rows |-> rows]
        ELSE IF columns = <<>> THEN [columns |-> parts, rows |-> rows]
        ELSE IF \A i \in 1..Len(parts) : DashesFullmatch(parts[i])
             THEN [columns |-> columns, rows |-> rows]
        ELSE IF ~VersionFullmatch(version) THEN [columns |-> columns, rows |-> rows]
        ELSE [columns |-> columns, rows |-> RowsSet(rows, version, parsed)]

RECURSIVE ParseLines(_, _, _, _)
\* The loop of parse_table from line i on.
ParseLines(lines, i, columns, rows) ==
    IF i > Len(lines) THEN rows
    ELSE IF ~StartsWith(lines[i], "|") THEN ParseLines(lines, i + 1, columns, rows)
    ELSE LET next == ParseLine(lines[i], columns, rows)
         IN  ParseLines(lines, i + 1, next.columns, next.rows)

\* The table file that does not exist: a value no content equals, a content
\* being made of one-character strings.
Absent == <<"no file">>

\* parse_table(table_path), from the content of the file
parse_table(content) ==
    IF content = Absent THEN <<>> ELSE ParseLines(SplitLines(content), 1, <<>>, <<>>)

\* The mutant of version_sort_key that orders versions as text, character by
\* character, a dot before every digit.
version_sort_key_text(version) ==
    [i \in 1..Len(version) |-> IF IsDigit(version[i]) THEN DigitValue(version[i]) ELSE -1]

\* version_sort_key(version)
version_sort_key(version) ==
    LET parts == Split(version, ".")
    IN  [i \in 1..Len(parts) |-> ParseInt(parts[i])]

\* Python's order on tuples of integers: a < b.
TupleLess(a, b) ==
    \E k \in 1..Len(b) :
        /\ \A j \in 1..(k - 1) : j <= Len(a) /\ a[j] = b[j]
        /\ (k > Len(a) \/ a[k] < b[k])

\* One step of the stable descending sort: v goes after every version whose
\* key is not less than its own.
InsertDescending(sorted, v) ==
    LET n == Cardinality({i \in 1..Len(sorted) :
                 ~TupleLess(version_sort_key(sorted[i]), version_sort_key(v))})
    IN  SubSeq(sorted, 1, n) \o <<v>> \o SubSeq(sorted, n + 1, Len(sorted))

RECURSIVE SortedDescending(_)
\* sorted(rows.keys(), key=version_sort_key, reverse=True)
SortedDescending(versions) ==
    IF versions = <<>> THEN <<>>
    ELSE InsertDescending(SortedDescending(SubSeq(versions, 1, Len(versions) - 1)),
                          versions[Len(versions)])

Sep == <<"|"," ">>

Mid == <<" ","|"," ">>

End == <<" ","|">>

\* The mutant of RowLine that writes the mac status before the linux one.
RowLineSwapped(version, row) ==
    Sep \o version
        \o Mid \o DictGet(row, mac, NotRun)
        \o Mid \o DictGet(row, linux, NotRun)
        \o Mid \o DictGet(row, windows, NotRun)
        \o Mid \o DictGet(row, rockylinux8, NotRun)
        \o Mid \o DictGet(row, ubuntu2004, NotRun)
        \o Mid \o DictGet(row, LastTestedUtc, <<>>)
        \o End

\* The line write_table emits for one row (lines 96-100).
RowLine(version, row) ==
    Sep \o version
        \o Mid \o DictGet(row, linux, NotRun)
        \o Mid \o DictGet(row, mac, NotRun)
        \o Mid \o DictGet(row, windows, NotRun)
        \o Mid \o DictGet(row, rockylinux8, NotRun)
        \o Mid \o DictGet(row, ubuntu2004, NotRun)
        \o Mid \o DictGet(row, LastTestedUtc, <<>>)
        \o End

RECURSIVE JoinLines(_)
\* "\n".join(out) + "\n"
JoinLines(out) ==
    IF out = <<>> THEN <<>> ELSE out[1] \o <<"\n">> \o JoinLines(Tail(out))

\* The text write_table writes for rows.
TableText(rows) ==
    LET keys == SortedDescending([i \in 1..Len(rows) |-> rows[i].version])
        body == [i \in 1..Len(keys) |-> RowLine(keys[i], RowsGet(rows, keys[i]))]
    IN  JoinLines(<<Title, <<>>, Notice, <<>>>> \o HEADER \o body)

\* ------------------------------------------------------ result artifacts

\* What json.loads gives for a file of the results directory: a JSON value
\* with its type t, its text s when it is a string, and its members, in the
\* order of the file, when it is an object.
JString(s) == [t |-> "string", s |-> s, members |-> <<>>]

JNull == [t |-> "null", s |-> <<>>, members |-> <<>>]

JTrue == [t |-> "true", s |-> <<>>, members |-> <<>>]

JArray == [t |-> "array", s |-> <<>>, members |-> <<>>]

JObject(members) == [t |-> "object", s |-> <<>>, members |-> members]

Member(k, v) == [k |-> k, v |-> v]

\* A file of the results directory: its text parses as JSON or it does not.
JsonFile(payload) == [parses |-> TRUE, payload |-> payload]

MalformedFile == [parses |-> FALSE, payload |-> JNull]

\* str(value) for the values the artifacts of this model hold: a string is
\* itself, null is None, true is True, an empty array is [].
PyStr(v) ==
    CASE v.t = "string" -> v.s
      [] v.t = "null" -> <<"N","o","n","e">>
      [] v.t = "true" -> <<"T","r","u","e">>
      [] v.t = "array" -> <<"[","]">>
      [] v.t = "object" -> <<"{","}">>

\* payload.get(key, default) on a JSON object
ObjGet(members, key, default) ==
    IF \E i \in 1..Len(members) : members[i].k = key
    THEN members[SetMax({i \in 1..Len(members) : members[i].k = key})].v
    ELSE default

\* updates.setdefault(normalized, {})[platform] = normalized_status
UpdatesPut(updates, version, platform, status) ==
    IF version \in DOMAIN updates
    THEN [updates EXCEPT ![version] = (platform :> status) @@ @]
    ELSE (version :> (platform :> status)) @@ updates

\* The mutant of NormalizeStatus that keeps a status it does not know.
NormalizeStatusKeep(status) == Lower(Strip(PyStr(status)))

\* Lines 73-75 of load_results.
NormalizeStatus(status) ==
    LET normalized_status == Lower(Strip(PyStr(status)))
    IN  IF normalized_status \notin KnownStatuses THEN Fail ELSE normalized_status

RECURSIVE LoadItems(_, _, _, _)
\* The loop over results.items() (lines 69-76) from item i on.
LoadItems(items, i, platform, updates) ==
    IF i > Len(items) THEN updates
    ELSE LET normalized == normalize_version(items[i].k)
         IN  IF ~VersionFullmatch(normalized)
             THEN LoadItems(items, i + 1, platform, updates)
             ELSE LoadItems(items, i + 1, platform,
                      UpdatesPut(updates, normalized, platform, NormalizeStatus(items[i].v)))

\* The mutant of ArtifactPlatform that lowers the case of the platform.
ArtifactPlatformLower(payload) ==
    Lower(Strip(PyStr(ObjGet(payload, <<"p","l","a","t","f","o","r","m">>, JString(<<>>)))))

\* str(payload.get("platform", "")).strip() (line 63)
ArtifactPlatform(payload) == Strip(PyStr(ObjGet(payload, <<"p","l","a","t","f","o","r","m">>, JString(<<>>))))

RECURSIVE LoadFiles(_, _, _)
\* The loop of load_results over the files, in sorted path order, from file
\* i on. payload.get on a value that is not an object raises AttributeError,
\* which nothing catches: raised is TRUE and the run ends there.
LoadFiles(files, i, updates) ==
    IF i > Len(files) THEN [raised |-> FALSE, updates |-> updates]
    ELSE IF ~files[i].parses THEN LoadFiles(files, i + 1, updates)
    ELSE IF files[i].payload.t # "object" THEN [raised |-> TRUE, updates |-> updates]
    ELSE LET payload == files[i].payload.members
             platform == ArtifactPlatform(payload)
             results == ObjGet(payload, <<"r","e","s","u","l","t","s">>, JObject(<<>>))
         IN  IF platform \notin PlatformSet THEN LoadFiles(files, i + 1, updates)
             ELSE IF results.t # "object" THEN LoadFiles(files, i + 1, updates)
             ELSE LoadFiles(files, i + 1, LoadItems(results.members, 1, platform, updates))

\* load_results(results_dir), from the files of the directory
load_results(files) == LoadFiles(files, 1, <<>>)

\* datetime.now(timezone.utc).strftime("%Y-%m-%dT%H:%M:%SZ") at second now
\* of the first minute of the epoch.
FormatUTC(now) ==
    <<"1","9","7","0","-","0","1","-","0","1","T","0","0",":","0","0",":">> \o <<DIGITS[(now \div 10) + 1], DIGITS[(now % 10) + 1], "Z">>

\* The mutant of MergeRow that starts from an empty row instead of the
\* existing one.
MergeRowFresh(rows, updates, version, stamp) ==
    LET merged == [platform \in PlatformSet |-> NotRun]
        updated == DictGet(updates, version, <<>>) @@ merged
    IN  RowsSet(rows, version, (LastTestedUtc :> stamp) @@ updated)

\* Lines 125-129 of main: rows after the merge of the target version.
MergeRow(rows, updates, version, stamp) ==
    LET base == RowsGet(rows, version)
        merged == [platform \in PlatformSet |-> DictGet(base, platform, NotRun)]
        updated == DictGet(updates, version, <<>>) @@ merged
    IN  RowsSet(rows, version, (LastTestedUtc :> stamp) @@ updated)

\* ----------------------------------------------------------------- inputs

\* The last second of the clock.
MaxClock == 1

Procs == {1, 2}

\* A table the tool wrote earlier: two rows, newest version first.
ToolTable == <<"#"," ","C","o","d","e","x"," ","C","o","m","p","a","t","i","b","i","l","i","t","y","\n","\n","A","u","t","o","-","u","p","d","a","t","e","d"," ","b","y"," ","'",".","g","i","t","h","u","b","/","w","o","r","k","f","l","o","w","s","/","c","o","d","e","x","-","r","e","l","e","a","s","e","-","m","o","n","i","t","o","r",".","y","m","l","'",".","\n","\n","|"," ","C","o","d","e","x"," ","v","e","r","s","i","o","n"," ","|"," ","l","i","n","u","x"," ","|"," ","m","a","c"," ","|"," ","w","i","n","d","o","w","s"," ","|"," ","r","o","c","k","y","l","i","n","u","x","8"," ","|"," ","u","b","u","n","t","u","2","0",".","0","4"," ","|"," ","l","a","s","t","_","t","e","s","t","e","d","_","u","t","c"," ","|","\n","|"," ","-","-","-"," ","|"," ","-","-","-"," ","|"," ","-","-","-"," ","|"," ","-","-","-"," ","|"," ","-","-","-"," ","|"," ","-","-","-"," ","|"," ","-","-","-"," ","|","\n","|"," ","1",".","1","0",".","0"," ","|"," ","n","o","t","-","r","u","n"," ","|"," ","p","a","s","s"," ","|"," ","n","o","t","-","r","u","n"," ","|"," ","n","o","t","-","r","u","n"," ","|"," ","n","o","t","-","r","u","n"," ","|"," ","1","9","6","9","-","1","2","-","3","1","T","2","3",":","5","9",":","5","8","Z"," ","|","\n","|"," ","1",".","9",".","0"," ","|"," ","f","a","i","l"," ","|"," ","p","a","s","s"," ","|"," ","p","a","s","s"," ","|"," ","n","o","t","-","r","u","n"," ","|"," ","n","o","t","-","r","u","n"," ","|"," ","1","9","6","9","-","1","2","-","3","1","T","2","3",":","5","9",":","5","9","Z"," ","|","\n">>

\* A table edited by hand: fewer columns, rows out of order, a cell that is no
\* status, an upper-case status, a v before a version, a row with too few
\* cells, a row whose version is not dotted-numeric, a line with one cell.
HandTable == <<"N","o","t","e","s","\n","\n","|"," ","C","o","d","e","x"," ","v","e","r","s","i","o","n"," ","|"," ","l","i","n","u","x"," ","|"," ","m","a","c"," ","|"," ","l","a","s","t","_","t","e","s","t","e","d","_","u","t","c"," ","|","\n","|"," ","-","-","-"," ","|"," ","-","-","-"," ","|"," ","-","-","-"," ","|"," ","-","-","-"," ","|","\n","|"," ","1",".","9"," ","|"," ","b","a","n","a","n","a"," ","|"," ","P","A","S","S"," ","|"," ","1","9","6","9","-","1","2","-","3","1","T","2","3",":","5","9",":","5","9","Z"," ","|","\n","|"," ","v","1",".","1","0",".","0"," ","|"," ","p","a","s","s"," ","|","\n","|","a","b","c","|","p","a","s","s","|","p","a","s","s","|","\n","|"," ","1",".","9",".","0"," ","|","\n">>

InitTables == {Absent, ToolTable, HandTable}

\* The tables of Init that are in the tool's own format.
ToolTables == {ToolTable}

Artifact(platform, results) ==
    JsonFile(JObject(<<Member(<<"p","l","a","t","f","o","r","m">>, platform), Member(<<"r","e","s","u","l","t","s">>, results)>>))

\* One artifact: linux passed 1.9.0, reported in upper case.
ResultsPass == <<Artifact(JString(linux), JObject(<<Member(<<"1",".","9",".","0">>, JString(<<"P","A","S","S">>))>>))>>

\* Two artifacts of one platform that disagree on 1.9.0.
ResultsTwice == <<
    Artifact(JString(linux), JObject(<<Member(<<"1",".","9",".","0">>, JString(Pass))>>)),
    Artifact(JString(linux), JObject(<<Member(<<"1",".","9",".","0">>, JString(Fail))>>)) >>

\* Inputs load_results skips or coerces: a file that is not JSON, platforms
\* outside the list (one by its case only), results that are no mapping, a platform with spaces
\* around it, keys with a v or not dotted-numeric, statuses to trim, to lower
\* or unknown, a status that is no string.
ResultsMixed == <<
    MalformedFile,
    Artifact(JString(<<"f","r","e","e","b","s","d">>), JObject(<<Member(<<"1",".","9",".","0">>, JString(Pass)),
                                          Member(<<"1",".","1","0",".","0">>, JString(Fail))>>)),
    Artifact(JString(<<"L","i","n","u","x">>), JObject(<<Member(<<"1",".","9",".","0">>, JString(Pass))>>)),
    Artifact(JString(mac), JArray),
    Artifact(JString(<<" ","w","i","n","d","o","w","s"," ">>), JObject(<<Member(<<"v","1",".","1","0",".","0">>, JString(<<" ","N","o","t","-","R","u","n"," ">>)),
                                            Member(<<"1",".","9",".","0">>, JString(<<"f","l","a","k","y">>)),
                                            Member(<<"a","b","c">>, JString(Pass)),
                                            Member(<<"1",".","9">>, JNull)>>)),
    JsonFile(JObject(<<Member(<<"r","e","s","u","l","t","s">>, JObject(<<Member(<<"1",".","9">>, JString(Pass))>>))>>)) >>

\* A file whose top-level JSON value is an array, after a good artifact.
ResultsArray == <<
    Artifact(JString(mac), JObject(<<Member(<<"1",".","1","0",".","0">>, JString(Pass))>>)),
    JsonFile(JArray) >>

InitResults == {<<>>, ResultsPass, ResultsTwice, ResultsMixed, ResultsArray}

\* The values of --version.
VersionArgs == {<<"1",".","9",".","0">>, <<"v","1",".","1","0",".","0">>, <<" ","1",".","9">>, <<"a","b","c">>, <<"1">>}

\* ------------------------------------------------------------------ state

VARIABLES
    table,      \* the content of the table file, or Absent
    results,    \* the files of the results directory the runs are given, in sorted path order
    clock,      \* the latest second a run read from the UTC clock
    pc,         \* where each run is in main
    argv,       \* each run's --version
    exitCode,   \* each run's exit status
    rows,       \* each run's rows
    updates,    \* each run's updates
    readRows,   \* history: the rows each run got from parse_table
    readOwn,    \* history: the table each run read was as the tool writes it
    lastWriter, \* history: the run that wrote to the table file last, 0 for none
    ownFormat   \* history: the table file is as the tool writes it

vars == <<table, results, clock, pc, argv, exitCode, rows, updates, readRows,
          readOwn, lastWriter, ownFormat>>

Init ==
    /\ table \in InitTables
    /\ results \in InitResults
    /\ clock = 0
    /\ pc = [p \in Procs |-> "idle"]
    /\ argv = [p \in Procs |-> <<>>]
    /\ exitCode = [p \in Procs |-> 0]
    /\ rows = [p \in Procs |-> <<>>]
    /\ updates = [p \in Procs |-> <<>>]
    /\ readRows = [p \in Procs |-> <<>>]
    /\ readOwn = [p \in Procs |-> FALSE]
    /\ lastWriter = 0
    /\ ownFormat = (table \in ToolTables)

\* -------------------------------------------------------------- operations

\* main, lines 115-119: a version that is not dotted-numeric after
\* normalize_version raises SystemExit with a message, exit status 1.
Start(p, arg) ==
    /\ pc[p] = "idle"
    /\ argv' = [argv EXCEPT ![p] = arg]
    /\ IF VersionFullmatch(normalize_version(arg))
       THEN pc' = [pc EXCEPT ![p] = "parse"] /\ UNCHANGED exitCode
       ELSE pc' = [pc EXCEPT ![p] = "exited"] /\ exitCode' = [exitCode EXCEPT ![p] = 1]
    /\ UNCHANGED <<table, results, clock, rows, updates, readRows, readOwn, lastWriter,
                   ownFormat>>

\* main, line 122: rows = parse_table(table_path)
ParseTable(p) ==
    /\ pc[p] = "parse"
    /\ rows' = [rows EXCEPT ![p] = parse_table(table)]
    /\ readRows' = [readRows EXCEPT ![p] = parse_table(table)]
    /\ readOwn' = [readOwn EXCEPT ![p] = ownFormat]
    /\ pc' = [pc EXCEPT ![p] = "load"]
    /\ UNCHANGED <<table, results, clock, argv, exitCode, updates, lastWriter, ownFormat>>

\* main, line 123: updates = load_results(results_dir); the AttributeError of
\* line 63 ends the run with a traceback, exit status 1.
LoadResults(p) ==
    /\ pc[p] = "load"
    /\ LET loaded == load_results(results)
       IN  IF loaded.raised
           THEN /\ pc' = [pc EXCEPT ![p] = "exited"]
                /\ exitCode' = [exitCode EXCEPT ![p] = 1]
                /\ UNCHANGED updates
           ELSE /\ pc' = [pc EXCEPT ![p] = "merge"]
                /\ updates' = [updates EXCEPT ![p] = loaded.updates]
                /\ UNCHANGED exitCode
    /\ UNCHANGED <<table, results, clock, argv, rows, readRows, readOwn, lastWriter, ownFormat>>

\* main, lines 125-129: the merge, stamped with the time read at line 128,
\* which is not before any time read earlier.
Merge(p) ==
    /\ pc[p] = "merge"
    /\ \E now \in clock..MaxClock :
        /\ clock' = now
        /\ rows' = [rows EXCEPT ![p] =
                       MergeRow(rows[p], updates[p], normalize_version(argv[p]), FormatUTC(now))]
    /\ pc' = [pc EXCEPT ![p] = "open"]
    /\ UNCHANGED <<table, results, argv, exitCode, updates, readRows, readOwn, lastWriter,
                   ownFormat>>

\* write_table, line 103: write_text opens the file for writing, which
\* creates it or cuts it to no content.
OpenTable(p) ==
    /\ pc[p] = "open"
    /\ table' = <<>>
    /\ ownFormat' = FALSE
    /\ pc' = [pc EXCEPT ![p] = "write"]
    /\ UNCHANGED <<results, clock, argv, exitCode, rows, updates, readRows, readOwn,
                   lastWriter>>

\* The file after text is written at its start: what it held beyond the
\* length of text stays.
WrittenAtStart(content, text) == text \o SubSeq(content, Len(text) + 1, Len(content))

\* write_table, line 103: write_text writes the whole text from the start of
\* the file it opened and closes it; main returns 0 (line 132).
WriteText(p) ==
    /\ pc[p] = "write"
    /\ table' = WrittenAtStart(table, TableText(rows[p]))
    /\ ownFormat' = (table' = TableText(rows[p]))
    /\ lastWriter' = p
    /\ pc' = [pc EXCEPT ![p] = "exited"]
    /\ exitCode' = [exitCode EXCEPT ![p] = 0]
    /\ UNCHANGED <<results, clock, argv, rows, updates, readRows, readOwn>>

\* The process has ended; the next invocation starts from nothing.
Exit(p) ==
    /\ pc[p] = "exited"
    /\ pc' = [pc EXCEPT ![p] = "idle"]
    /\ argv' = [argv EXCEPT ![p] = <<>>]
    /\ exitCode' = [exitCode EXCEPT ![p] = 0]
    /\ rows' = [rows EXCEPT ![p] = <<>>]
    /\ updates' = [updates EXCEPT ![p] = <<>>]
    /\ readRows' = [readRows EXCEPT ![p] = <<>>]
    /\ readOwn' = [readOwn EXCEPT ![p] = FALSE]
    /\ UNCHANGED <<table, results, clock, lastWriter, ownFormat>>

\* The steps of one run.
Run(p) ==
    \/ \E arg \in VersionArgs : Start(p, arg)
    \/ ParseTable(p)
    \/ LoadResults(p)
    \/ Merge(p)
    \/ OpenTable(p)
    \/ WriteText(p)

\* Invocations one after the other, as the workflow makes them.
Next == Run(1) \/ Exit(1)

Spec == Init /\ [][Next]_vars

\* Two invocations on one table file and one results directory that may
\* overlap, each made once.
InitOverlap ==
    /\ Init
    /\ table \in {Absent, ToolTable}
    /\ results \in {<<>>, ResultsPass}

NextOverlap == Run(1) \/ Run(2)

SpecOverlap == InitOverlap /\ [][NextOverlap]_vars

\* ----------------------------------------------------------------- claims

\* A dotted-numeric version as the specification words it: decimal digits and
\* dots, a digit first and last, at least one dot, no two dots together.
DottedNumeric(s) ==
    /\ s # <<>>
    /\ \A i \in 1..Len(s) : IsDigit(s[i]) \/ s[i] = "."
    /\ IsDigit(s[1]) /\ IsDigit(s[Len(s)])
    /\ \E i \in 1..Len(s) : s[i] = "."
    /\ \A i \in 1..(Len(s) - 1) : ~(s[i] = "." /\ s[i + 1] = ".")

\* The target version of run p.
Target(p) == normalize_version(argv[p])

Ended(p) == pc[p] = "exited"

Succeeded(p) == Ended(p) /\ exitCode[p] = 0

\* The rows of the table file as it is now, in the order of the file.
TableRows == parse_table(table)

VersionsOf(rs) == {rs[i].version : i \in 1..Len(rs)}

\* The cell of row v under column k, no text for a cell that is not there.
CellOf(rs, v, k) == DictGet(RowsGet(rs, v), k, <<>>)

StatusesOf(rs, v) == [k \in PlatformSet |-> CellOf(rs, v, k)]

\* The versions of rs, each with its platform statuses (no timestamp).
StatusRows(rs) == {<<v, StatusesOf(rs, v)>> : v \in VersionsOf(rs)}

AllNotRun == [k \in PlatformSet |-> NotRun]

IsObjectFile(file) == file.parses /\ file.payload.t = "object"

\* The platform an artifact names, spaces around it dropped.
PlatformOf(file) == Strip(PyStr(ObjGet(file.payload.members, <<"p","l","a","t","f","o","r","m">>, JString(<<>>))))

\* The members of an artifact's results mapping, none when it has no mapping.
ResultsOf(file) ==
    LET r == ObjGet(file.payload.members, <<"r","e","s","u","l","t","s">>, JObject(<<>>))
    IN  IF IsObjectFile(file) /\ r.t = "object" THEN r.members ELSE <<>>

\* The places <<i, j>> where file i of the directory is an artifact of
\* platform whose results map version, as member j, to a status.
Supplying(files, platform, version) ==
    {ij \in UNION {{<<i, j>> : j \in 1..Len(ResultsOf(files[i]))} : i \in 1..Len(files)} :
        /\ IsObjectFile(files[ij[1]])
        /\ PlatformOf(files[ij[1]]) = platform
        /\ normalize_version(ResultsOf(files[ij[1]])[ij[2]].k) = version}

\* The raw status at a place.
RawStatus(files, ij) == ResultsOf(files[ij[1]])[ij[2]].v

\* The last place of S in load order: files in path order, members in the
\* order of the file.
LastOf(S) ==
    CHOOSE ij \in S : \A o \in S : o[1] < ij[1] \/ (o[1] = ij[1] /\ o[2] <= ij[2])

\* The status the specification gives a raw status: trimmed and lowercased
\* when that is pass, fail or not-run, fail otherwise.
SpecStatus(raw) ==
    LET t == Lower(Strip(PyStr(raw)))
    IN  IF t = Pass \/ t = Fail \/ t = NotRun THEN t ELSE Fail

\* No artifact carries a status for version on any listed platform.
NoStatusFor(files, version) == \A k \in PlatformSet : Supplying(files, k, version) = {}

\* The components of a version as numbers.
Components(v) == LET parts == Split(v, ".") IN [i \in 1..Len(parts) |-> ParseInt(parts[i])]

\* Version a is numerically greater than version b, component by component,
\* a version being greater than each of its proper prefixes.
NumericallyGreater(a, b) ==
    LET x == Components(a)
        y == Components(b)
    IN  \E k \in 1..Len(x) :
            /\ \A j \in 1..(k - 1) : j <= Len(y) /\ x[j] = y[j]
            /\ (k > Len(y) \/ x[k] > y[k])

\* files without file i
RemoveAt(files, i) == SubSeq(files, 1, i - 1) \o SubSeq(files, i + 1, Len(files))

\* C1: a run whose --version is not dotted-numeric after normalisation ends
\* at once with a non-zero exit status, and the step that ends it leaves the
\* table file as it was; no run is past its start with such a version.
C1_InvalidVersionWritesNothing ==
    /\ [][\A p \in Procs :
            (pc[p] = "idle" /\ pc'[p] # "idle" /\ ~DottedNumeric(normalize_version(argv'[p])))
                => (pc'[p] = "exited" /\ exitCode'[p] # 0 /\ table' = table)]_vars
    /\ [](\A p \in Procs :
            pc[p] \in {"parse", "load", "merge", "open", "write"} => DottedNumeric(Target(p)))

\* C1, its case: --version abc has ended with exit status 1 on a table that exists.
C1_Witness ==
    pc[1] = "exited" /\ exitCode[1] = 1 /\ argv[1] = <<"a","b","c">> /\ table = ToolTable

\* C2, as claimed: a run with a valid --version ends with exit status 0 and
\* has written the table, whatever malformed input the results directory and
\* the table hold.
C2_ValidVersionNeverFatal ==
    \A p \in Procs :
        (Ended(p) /\ DottedNumeric(Target(p))) => (exitCode[p] = 0 /\ lastWriter = p)

\* C3, as claimed: after a successful run every platform cell of every row of
\* the written table is pass, fail or not-run.
C3_EveryCellIsAStatus ==
    \A p \in Procs :
        Succeeded(p) =>
            LET after == TableRows
            IN  \A v \in VersionsOf(after) : \A k \in PlatformSet :
                    CellOf(after, v, k) \in KnownStatuses

\* C4, as claimed: after a successful run with target V, for every listed
\* platform P and every artifact of platform P that maps V to a raw status s,
\* cell (V, P) of the written table is the specification's status for s.
C4_EveryArtifactStatusWritten ==
    \A p \in Procs :
        Succeeded(p) =>
            LET after == TableRows
            IN  \A k \in PlatformSet : \A ij \in Supplying(results, k, Target(p)) :
                    CellOf(after, Target(p), k) = SpecStatus(RawStatus(results, ij))

\* C4, amended: after a successful run with target V, for every listed
\* platform P that some artifact maps V to a status for, cell (V, P) of the
\* written table is the specification's status for the raw status of the last
\* such artifact in load order.
C4_LastArtifactStatusWritten ==
    \A p \in Procs :
        Succeeded(p) =>
            LET after == TableRows
            IN  \A k \in PlatformSet :
                    LET S == Supplying(results, k, Target(p))
                    IN  S # {} =>
                            CellOf(after, Target(p), k) = SpecStatus(RawStatus(results, LastOf(S)))

\* C4, its case: two artifacts for linux disagree on the target 1.9.0, and the
\* run has written the status of the later one.
C4_Witness ==
    /\ Succeeded(1) /\ results = ResultsTwice /\ Target(1) = <<"1",".","9",".","0">>
    /\ CellOf(TableRows, <<"1",".","9",".","0">>, linux) = Fail

\* C5: a run writes the same rows (versions and statuses), and ends the same
\* way, as it would with any one artifact of an unlisted platform taken out
\* of the results directory.
C5_UnlistedPlatformIgnored ==
    \A p \in Procs :
        (Ended(p) /\ DottedNumeric(Target(p))) =>
            \A i \in 1..Len(results) :
                (IsObjectFile(results[i]) /\ PlatformOf(results[i]) \notin PlatformSet) =>
                    LET other == load_results(RemoveAt(results, i))
                    IN  /\ (exitCode[p] = 0) = ~other.raised
                        /\ exitCode[p] = 0 =>
                               StatusRows(parse_table(table)) =
                                   StatusRows(MergeRow(readRows[p], other.updates, Target(p),
                                                       FormatUTC(clock)))

\* C5, its case: a run for 1.9.0 has written the table from a directory that
\* holds artifacts of unlisted platforms with a status for 1.9.0.
C5_Witness ==
    /\ Succeeded(1) /\ results = ResultsMixed /\ Target(1) = <<"1",".","9",".","0">>
    /\ \E i \in 1..Len(results) :
          /\ IsObjectFile(results[i]) /\ PlatformOf(results[i]) \notin PlatformSet
          /\ \E j \in 1..Len(ResultsOf(results[i])) : ResultsOf(results[i])[j].k = <<"1",".","9",".","0">>

\* C6, as claimed: a run whose target has no row in the table it read and no
\* status in any artifact ends with exit status 0, and the table then has a
\* row for the target with every platform not-run and the time of the run.
C6_AbsentVersionGetsNotRunRow ==
    \A p \in Procs :
        (Ended(p) /\ DottedNumeric(Target(p)) /\ Target(p) \notin VersionsOf(readRows[p])
            /\ NoStatusFor(results, Target(p))) =>
                LET after == TableRows
                IN  /\ exitCode[p] = 0
                    /\ Target(p) \in VersionsOf(after)
                    /\ StatusesOf(after, Target(p)) = AllNotRun
                    /\ CellOf(after, Target(p), LastTestedUtc) = FormatUTC(clock)

\* C7: after a successful run no row of the table comes before a row whose
\* version is numerically greater.
C7_RowsSortedNumericallyDescending ==
    \A p \in Procs :
        Succeeded(p) =>
            LET after == TableRows
            IN  \A i \in 1..Len(after) : \A j \in 1..Len(after) :
                    i < j => ~NumericallyGreater(after[j].version, after[i].version)

\* C7, its case: the written table holds 1.10.0 above 1.9.0 above 1.9.
C7_Witness ==
    /\ Succeeded(1)
    /\ LET after == TableRows
       IN  [i \in 1..Len(after) |-> after[i].version] = <<<<"1",".","1","0",".","0">>, <<"1",".","9",".","0">>, <<"1",".","9">>>>

\* C8, as claimed: a run on a table in the tool's own format, with no
\* artifact status for the target, leaves the same versions with the same
\* statuses.
C8_RewriteKeepsRowSet ==
    \A p \in Procs :
        (Succeeded(p) /\ readOwn[p] /\ NoStatusFor(results, Target(p))) =>
            StatusRows(TableRows) = StatusRows(readRows[p])

\* C8, amended: such a run leaves the same versions with the same statuses,
\* and one more row, every platform not-run, for a target that had no row;
\* every row but the target's keeps its timestamp too, and the table is again
\* in the tool's own format, so the same holds of every further run.
C8_RewriteKeepsRowSetPlusTarget ==
    \A p \in Procs :
        (Ended(p) /\ DottedNumeric(Target(p)) /\ readOwn[p] /\ NoStatusFor(results, Target(p))) =>
            LET after == TableRows
            IN  /\ ownFormat
                /\ exitCode[p] # 0 => after = readRows[p]
                /\ exitCode[p] = 0 =>
                    /\ StatusRows(after) =
                           StatusRows(readRows[p]) \cup
                               (IF Target(p) \in VersionsOf(readRows[p]) THEN {}
                                ELSE {<<Target(p), AllNotRun>>})
                    /\ \A v \in VersionsOf(readRows[p]) \ {Target(p)} :
                           RowsGet(after, v) = RowsGet(readRows[p], v)

\* C8, its case: a run for 1.9.0 without artifacts has rewritten the table the
\* tool wrote, which held statuses for 1.9.0.
C8_Witness ==
    /\ Succeeded(1) /\ readOwn[1] /\ results = <<>> /\ Target(1) = <<"1",".","9",".","0">>
    /\ readRows[1] = parse_table(ToolTable)

\* C9: a run removes no row, leaves every row of another version as it was,
\* statuses and timestamp, adds no row but the target's, and leaves each
\* platform of the target row for which no artifact has a status with the
\* status the row had, not-run when there was no row.
C9_OnlyTargetCellsChange ==
    \A p \in Procs :
        (Ended(p) /\ DottedNumeric(Target(p))) =>
            LET after == TableRows
            IN  /\ VersionsOf(readRows[p]) \subseteq VersionsOf(after)
                /\ VersionsOf(after) \subseteq VersionsOf(readRows[p]) \cup {Target(p)}
                /\ \A v \in VersionsOf(readRows[p]) \ {Target(p)} :
                       RowsGet(after, v) = RowsGet(readRows[p], v)
                /\ exitCode[p] # 0 => after = readRows[p]
                /\ exitCode[p] = 0 =>
                       \A k \in PlatformSet :
                           Supplying(results, k, Target(p)) = {} =>
                               CellOf(after, Target(p), k) =
                                   DictGet(RowsGet(readRows[p], Target(p)), k, NotRun)

\* C9, its case: a run for 1.9.0 has written, where the table had rows for
\* 1.9.0 and 1.10.0 and the artifacts have statuses for both.
C9_Witness ==
    /\ Succeeded(1) /\ results = ResultsMixed /\ Target(1) = <<"1",".","9",".","0">>
    /\ readRows[1] = parse_table(ToolTable)
    /\ Supplying(results, windows, <<"1",".","1","0",".","0">>) # {}

\* C10, as claimed: when no run is at work on the table file, the file is the
\* complete text the run that wrote last made from the rows it read.
C10_LastWriterWins ==
    (lastWriter # 0 /\ \A p \in Procs : pc[p] \in {"idle", "exited"}) =>
        table = TableText(rows[lastWriter])

====
